---- MODULE Spec2Model ----
(***************************************************************************)
(* Model of mix_mp3.py (fixed 60 s caption windows) and mix_mp3a.py        *)
(* (caption windows from probed durations): playlist reading, construction *)
(* of the audio-mix and video-render commands, and the orchestration in    *)
(* main with its early returns, exception handlers and finally block.      *)
(*                                                                         *)
(* Strings are sequences of tokens.  The characters the code or the filter *)
(* syntax looks at (space, newline, '#', '/', '.', quote, backslash, ':')  *)
(* are tokens of their own; other text is an opaque token.                 *)
(***************************************************************************)
EXTENDS Integers, Sequences, FiniteSets, TLC

VARIABLES
    pc,                   \* position of the script
    variant,              \* "mix_mp3" or "mix_mp3a"
    input_dir,            \* what os.listdir(input_dir) finds
    playlist_path,        \* path of the playlist file
    file,                 \* content of the playlist file
    pos,                  \* offset of the file iterator
    tracks,               \* list of Track(path, name)
    crossfade_duration,   \* --crossfade_duration
    i,                    \* loop index of the builder that is running
    last_output,          \* generate_ffmpeg_command: last_output
    filter_complex_parts, \* generate_ffmpeg_command: filter_complex_parts
    ffmpeg_command,       \* the audio-mix command
    total_duration,       \* mix_mp3a: running sum of probed durations
    durations,            \* mix_mp3a: the values get_audio_duration returned
    text_filters,         \* generate_waveform_with_text: text_filters
    waveform_command,     \* the video-render command
    running,              \* external processes that have not exited
    log,                  \* steps of the run, in the order they happened
    report,               \* diagnostics printed to the console
    tempExists,           \* temp_audio.mp3 exists in the working directory
    tempAtStart,          \* temp_audio.mp3 existed when the run began
    written,              \* files external tools of this run wrote to
    inTry,                \* control has entered the try statement of main
    exc                   \* the exception being propagated, if any

vars == <<pc, variant, input_dir, playlist_path, file, pos, tracks,
          crossfade_duration, i, last_output, filter_complex_parts,
          ffmpeg_command, total_duration, durations, text_filters,
          waveform_command, running, log, report, tempExists, tempAtStart,
          written, inTry, exc>>

readerVars == <<playlist_path, file, pos, tracks>>
mixVars    == <<crossfade_duration, last_output, filter_complex_parts, ffmpeg_command>>
waveVars   == <<total_duration, durations, text_filters, waveform_command>>
envVars    == <<running, report, tempExists, written>>
runVars    == <<variant, input_dir, tempAtStart>>

(***************************************************************************)
(* Bounds                                                                  *)
(***************************************************************************)
MaxFileLen   == 6    \* tokens in a playlist file
MaxTracks    == 3    \* tracks of a playlist in a run of main
MaxMixTracks == 4    \* tracks handed to generate_ffmpeg_command
MaxCrossfade == 2    \* largest --crossfade_duration
MaxDur       == 2    \* largest probed duration
MaxNameLen   == 3    \* tokens in a track name handed to the caption builder

Variants == {"mix_mp3", "mix_mp3a"}

(***************************************************************************)
(* String helpers (str.strip, os.path)                                     *)
(***************************************************************************)
SeqsUpTo(S, n) == UNION {[1..k -> S] : k \in 0..n}

IsSpace(c) == c \in {" ", "\n"}

RECURSIVE lstrip(_)
lstrip(s) == IF s = <<>> THEN <<>>
             ELSE IF IsSpace(Head(s)) THEN lstrip(Tail(s)) ELSE s

RECURSIVE rstrip(_)
rstrip(s) == IF s = <<>> THEN <<>>
             ELSE IF IsSpace(s[Len(s)]) THEN rstrip(SubSeq(s, 1, Len(s) - 1)) ELSE s

strip(s) == rstrip(lstrip(s))

\* 1-based index of the last occurrence of c in s, 0 when there is none
rfind(s, c) == LET hits == {k \in 1..Len(s) : s[k] = c}
               IN  IF hits = {} THEN 0 ELSE CHOOSE k \in hits : \A m \in hits : m <= k

RECURSIVE rstripSlash(_)
rstripSlash(s) == IF s = <<>> THEN <<>>
                  ELSE IF s[Len(s)] = "/" THEN rstripSlash(SubSeq(s, 1, Len(s) - 1)) ELSE s

\* os.path.dirname
dirname(p) == LET head == SubSeq(p, 1, rfind(p, "/"))
              IN  IF head # <<>> /\ \E k \in 1..Len(head) : head[k] # "/"
                  THEN rstripSlash(head) ELSE head

\* os.path.basename
basename(p) == SubSeq(p, rfind(p, "/") + 1, Len(p))

\* os.path.splitext(p)[0]
splitext_root(p) ==
    LET sepIndex == rfind(p, "/")
        dotIndex == rfind(p, ".")
    IN  IF dotIndex > sepIndex /\ \E k \in (sepIndex + 1)..(dotIndex - 1) : p[k] # "."
        THEN SubSeq(p, 1, dotIndex - 1)
        ELSE p

\* os.path.join(a, b)
path_join(a, b) == IF b # <<>> /\ b[1] = "/" THEN b
                   ELSE IF a = <<>> \/ a[Len(a)] = "/" THEN a \o b
                   ELSE a \o <<"/">> \o b

Track(path, name) == [path |-> path, name |-> name]

(***************************************************************************)
(* read_m3u_playlist                                                       *)
(***************************************************************************)
\* end offset of the line the file iterator yields at offset p
LineEnd(f, p) == LET nl == {k \in (p + 1)..Len(f) : f[k] = "\n"}
                 IN  IF nl = {} THEN Len(f) ELSE CHOOSE k \in nl : \A m \in nl : k <= m

IsTrackLineNoComment(line) == line # <<>>

\* if line and not line.startswith('#')
IsTrackLine(line) == line # <<>> /\ line[1] # "#"

TrackOfLine(path, line) ==
    Track(path_join(dirname(path), line), splitext_root(basename(line)))

ReadLine ==
    /\ pc = "read_loop"
    /\ pos < Len(file)
    /\ LET end  == LineEnd(file, pos)
           line == strip(SubSeq(file, pos + 1, end))
       IN  /\ pos' = end
           /\ tracks' = IF IsTrackLine(line)
                        THEN Append(tracks, TrackOfLine(playlist_path, line))
                        ELSE tracks
    /\ UNCHANGED <<pc, playlist_path, file, i, log, inTry, exc>>
    /\ UNCHANGED <<mixVars, waveVars, envVars, runVars>>

ReadReturn ==
    /\ pc = "read_loop"
    /\ pos = Len(file)
    /\ pc' = "check_len"
    /\ log' = Append(log, [ev |-> "parse", cmd |-> "playlist", idx |-> 0, rc |-> 0])
    /\ UNCHANGED <<i, inTry, exc>>
    /\ UNCHANGED <<readerVars, mixVars, waveVars, envVars, runVars>>

(***************************************************************************)
(* Console output, log entries, exceptions                                 *)
(***************************************************************************)
Msg(kind) == [kind |-> kind, cmd |-> "none", rc |-> 0]

Event(ev, cmd, idx, rc) == [ev |-> ev, cmd |-> cmd, idx |-> idx, rc |-> rc]

NoExc == [type |-> "none", cmd |-> "none", rc |-> 0]

(***************************************************************************)
(* main: locating the playlist and the two early returns                   *)
(***************************************************************************)
\* m3u_files = [...os.listdir(input_dir)...]; if not m3u_files: print; return
ListDir ==
    /\ pc = "main"
    /\ \/ /\ input_dir = "missing"        \* os.listdir raises, nothing catches it
          /\ pc' = "done"
          /\ report' = report \cup {Msg("traceback")}
       \/ /\ input_dir = "nom3u"
          /\ pc' = "done"
          /\ report' = report \cup {Msg("missing-playlist")}
       \/ /\ input_dir = "ok"
          /\ pc' = "read_loop"
          /\ report' = report
    /\ UNCHANGED <<i, log, inTry, exc, running, tempExists, written>>
    /\ UNCHANGED <<readerVars, mixVars, waveVars, runVars>>

TooFewTracksOffByOne(t) == Len(t) < 1

\* if len(tracks) < 2
TooFewTracks(t) == Len(t) < 2

CheckTracks ==
    /\ pc = "check_len"
    /\ IF TooFewTracks(tracks)
       THEN /\ pc' = "done"
            /\ report' = report \cup {Msg("insufficient-tracks")}
            /\ inTry' = inTry
       ELSE /\ pc' = "mix_enter"
            /\ report' = report
            /\ inTry' = TRUE
    /\ UNCHANGED <<i, log, exc, running, tempExists, written>>
    /\ UNCHANGED <<readerVars, mixVars, waveVars, runVars>>

(***************************************************************************)
(* generate_ffmpeg_command                                                 *)
(***************************************************************************)
InLabel(k)  == [kind |-> "in", n |-> k]     \* [k:a]
OutLabel(k) == [kind |-> "a", n |-> k]      \* [ak]

StageFromFirstInput(last, k, d) ==
    [first |-> InLabel(0), second |-> InLabel(k), d |-> d, out |-> OutLabel(k)]

\* f"{last_output}[{i}:a]acrossfade=d={crossfade_duration}:c1=tri:c2=tri{current_output};"
StageOf(last, k, d) ==
    [first |-> last, second |-> InLabel(k), d |-> d, out |-> OutLabel(k)]

MixEnter ==
    /\ pc = "mix_enter"
    /\ last_output' = InLabel(0)
    /\ filter_complex_parts' = <<>>
    /\ i' = 1
    /\ pc' = "mix_loop"
    /\ UNCHANGED <<crossfade_duration, ffmpeg_command, log, inTry, exc>>
    /\ UNCHANGED <<readerVars, waveVars, envVars, runVars>>

MixLoop ==
    /\ pc = "mix_loop"
    /\ i < Len(tracks)
    /\ filter_complex_parts' =
           Append(filter_complex_parts, StageOf(last_output, i, crossfade_duration))
    /\ last_output' = OutLabel(i)
    /\ i' = i + 1
    /\ UNCHANGED <<pc, crossfade_duration, ffmpeg_command, log, inTry, exc>>
    /\ UNCHANGED <<readerVars, waveVars, envVars, runVars>>

MixReturn ==
    /\ pc = "mix_loop"
    /\ i >= Len(tracks)
    /\ ffmpeg_command' = [inputs         |-> [k \in 1..Len(tracks) |-> tracks[k].path],
                          filter_complex |-> filter_complex_parts,
                          map            |-> last_output,
                          codec          |-> "libmp3lame",
                          output         |-> "temp_audio.mp3"]
    /\ pc' = "mix_run"
    /\ UNCHANGED <<i, crossfade_duration, last_output, filter_complex_parts, log, inTry, exc>>
    /\ UNCHANGED <<readerVars, waveVars, envVars, runVars>>

(***************************************************************************)
(* main: running the audio mix                                             *)
(***************************************************************************)
\* print(ffmpeg_command); subprocess.run(ffmpeg_command, shell=True, check=True)
MixStart ==
    /\ pc = "mix_run"
    /\ report' = report \cup {Msg("mix-command")}
    /\ running' = running \cup {"mix"}
    /\ log' = Append(log, Event("start", "mix", 0, 0))
    /\ pc' = "mix_wait"
    /\ UNCHANGED <<i, inTry, exc, tempExists, written>>
    /\ UNCHANGED <<readerVars, mixVars, waveVars, runVars>>

AfterMixUnchecked(rc) == "wave_enter"

\* check=True: a non-zero exit raises CalledProcessError
AfterMix(rc) == IF rc # 0 THEN "except_cpe" ELSE "wave_enter"

MixExit ==
    /\ pc = "mix_wait"
    /\ \E rc \in {0, 1}, wrote \in BOOLEAN :
          /\ rc = 0 => wrote
          /\ running' = running \ {"mix"}
          /\ log' = Append(log, Event("exit", "mix", 0, rc))
          /\ written' = IF wrote THEN written \cup {"temp"} ELSE written
          /\ tempExists' = (tempExists \/ wrote)
          /\ exc' = IF rc # 0 THEN [type |-> "CalledProcessError", cmd |-> "mix", rc |-> rc]
                    ELSE exc
          /\ pc' = AfterMix(rc)
    /\ UNCHANGED <<i, inTry, report>>
    /\ UNCHANGED <<readerVars, mixVars, waveVars, runVars>>

(***************************************************************************)
(* generate_waveform_with_text                                             *)
(***************************************************************************)
escape_quote_backslash_only == <<"\\", "'">>

\* the replacement string "'\\\\\\''" : quote, three backslashes, quote, quote
escape_quote == <<"'", "\\", "\\", "\\", "'", "'">>

\* track.name.replace("'", escape_quote)
RECURSIVE escape_name(_)
escape_name(name) ==
    IF name = <<>> THEN <<>>
    ELSE (IF Head(name) = "'" THEN escape_quote ELSE <<Head(name)>>)
         \o escape_name(Tail(name))

FixedWindowHalf(k) == <<k * 60, k * 60 + 30>>

\* mix_mp3: enable='between(t,{i*60},{(i+1)*60})'
FixedWindow(k) == <<k * 60, (k + 1) * 60>>

AccurateWindowFromZero(start, dur) == <<start, dur>>

\* mix_mp3a: start_time = total_duration; end_time = start_time + track_duration
AccurateWindow(start, dur) == <<start, start + dur>>

Caption(text, window) == [kind |-> "track", text |-> text, enable |-> window]

Timestamp == [kind |-> "timestamp", text |-> <<"%{pts", "\\", ":", "hms}">>, enable |-> <<>>]

\* options shared by every drawtext filter
DrawtextHead == <<"drawtext=fontsize=24", ":", "fontcolor=white", ":", "box=1", ":",
                  "boxcolor=black@0.5", ":", "boxborderw=5", ":">>

\* a track caption ends with text='...':enable='between(t,lo,hi)'
CaptionPrefix == DrawtextHead \o <<"x=10", ":", "y=h-th-10", ":", "text=", "'">>

\* the text of one entry of text_filters
FilterString(f) ==
    IF f.kind = "track"
    THEN CaptionPrefix \o f.text
         \o <<"'", ":", "enable=", "'", "between(t", ",", ToString(f.enable[1]),
              ",", ToString(f.enable[2]), ")", "'">>
    ELSE DrawtextHead \o <<"x=w-tw-10", ":", "y=h-th-10", ":", "text=", "'">>
         \o f.text \o <<"'">>

\* ','.join(text_filters)
RECURSIVE JoinFilters(_)
JoinFilters(fs) ==
    IF fs = <<>> THEN <<>>
    ELSE IF Len(fs) = 1 THEN FilterString(fs[1])
    ELSE FilterString(fs[1]) \o <<",">> \o JoinFilters(Tail(fs))

\* the part of filter_complex before the text filters
FilterHead == <<"[0:v]scale=1000", ":", "1000[bg]", ";",
                "[1:a]showwaves=s=1000x1000", ":", "mode=line", ":",
                "colors=white[waves]", ";",
                "[bg][waves]overlay=format=auto", ",", "format=yuv420p", ",">>

FilterComplex(fs) == FilterHead \o JoinFilters(fs) \o <<"[v]">>

WaveEnter ==
    /\ pc = "wave_enter"
    /\ report' = report \cup {Msg("mix-ok"), Msg("waveform-start")}
    /\ text_filters' = <<>>
    /\ total_duration' = 0
    /\ i' = 0
    /\ pc' = "wave_loop"
    /\ UNCHANGED <<durations, waveform_command, log, inTry, exc, running, tempExists, written>>
    /\ UNCHANGED <<readerVars, mixVars, runVars>>

\* mix_mp3: one loop iteration
WaveLoopFixed ==
    /\ pc = "wave_loop"
    /\ variant = "mix_mp3"
    /\ i < Len(tracks)
    /\ text_filters' = Append(text_filters,
                              Caption(escape_name(tracks[i + 1].name), FixedWindow(i)))
    /\ i' = i + 1
    /\ UNCHANGED <<pc, total_duration, durations, waveform_command, log, inTry, exc>>
    /\ UNCHANGED <<readerVars, mixVars, envVars, runVars>>

\* mix_mp3a: get_audio_duration starts ffprobe
ProbeStart ==
    /\ pc = "wave_loop"
    /\ variant = "mix_mp3a"
    /\ i < Len(tracks)
    /\ running' = running \cup {"probe"}
    /\ log' = Append(log, Event("start", "probe", i, 0))
    /\ pc' = "probe_wait"
    /\ UNCHANGED <<i, inTry, exc, report, tempExists, written>>
    /\ UNCHANGED <<readerVars, mixVars, waveVars, runVars>>

\* mix_mp3a: ffprobe cannot be started, subprocess.run raises OSError
ProbeSpawnError ==
    /\ pc = "wave_loop"
    /\ variant = "mix_mp3a"
    /\ i < Len(tracks)
    /\ exc' = [type |-> "OSError", cmd |-> "probe", rc |-> 0]
    /\ pc' = "except_other"
    /\ UNCHANGED <<i, log, inTry>>
    /\ UNCHANGED <<readerVars, mixVars, waveVars, envVars, runVars>>

\* mix_mp3a: ffprobe exits; json.loads and data['format']['duration'] look at
\* its stdout only, the return code is never read
ProbeExit ==
    /\ pc = "probe_wait"
    /\ \E rc \in {0, 1}, hasDuration \in BOOLEAN, d \in 0..MaxDur :
          /\ ~hasDuration => d = 0
          /\ running' = running \ {"probe"}
          /\ log' = Append(log, Event("exit", "probe", i, rc))
          /\ IF hasDuration
             THEN /\ text_filters' =
                        Append(text_filters,
                               Caption(escape_name(tracks[i + 1].name),
                                       AccurateWindow(total_duration, d)))
                  /\ total_duration' = total_duration + d
                  /\ durations' = Append(durations, d)
                  /\ i' = i + 1
                  /\ pc' = "wave_loop"
                  /\ exc' = exc
             ELSE /\ exc' = [type |-> "ValueError", cmd |-> "probe", rc |-> rc]
                  /\ pc' = "except_other"
                  /\ UNCHANGED <<text_filters, total_duration, durations, i>>
    /\ UNCHANGED <<waveform_command, inTry, report, tempExists, written>>
    /\ UNCHANGED <<readerVars, mixVars, runVars>>

\* after the loop: the timestamp caption, filter_complex and waveform_command
WaveBuild ==
    /\ pc = "wave_loop"
    /\ i >= Len(tracks)
    /\ text_filters' = Append(text_filters, Timestamp)
    /\ waveform_command' =
           [inputs         |-> <<"background_png", "temp_audio.mp3">>,
            filter_complex |-> FilterComplex(text_filters'),
            map            |-> <<"[v]", "1:a">>,
            limit          |-> IF variant = "mix_mp3a"
                               THEN <<"-t", total_duration>> ELSE <<"-shortest">>,
            output         |-> "output_file"]
    /\ pc' = "render_run"
    /\ UNCHANGED <<i, total_duration, durations, log, inTry, exc>>
    /\ UNCHANGED <<readerVars, mixVars, envVars, runVars>>

\* subprocess.run(waveform_command, check=True)
RenderStart ==
    /\ pc = "render_run"
    /\ running' = running \cup {"render"}
    /\ log' = Append(log, Event("start", "render", 0, 0))
    /\ pc' = "render_wait"
    /\ UNCHANGED <<i, inTry, exc, report, tempExists, written>>
    /\ UNCHANGED <<readerVars, mixVars, waveVars, runVars>>

RenderExit ==
    /\ pc = "render_wait"
    /\ \E rc \in {0, 1}, wrote \in BOOLEAN :
          /\ rc = 0 => wrote
          /\ running' = running \ {"render"}
          /\ log' = Append(log, Event("exit", "render", 0, rc))
          /\ written' = IF wrote THEN written \cup {"output"} ELSE written
          /\ IF rc # 0
             THEN /\ exc' = [type |-> "CalledProcessError", cmd |-> "render", rc |-> rc]
                  /\ pc' = "except_cpe"
                  /\ report' = report
             ELSE /\ exc' = exc
                  /\ pc' = "finally"
                  /\ report' = report \cup {Msg("render-ok")}
    /\ UNCHANGED <<i, inTry, tempExists>>
    /\ UNCHANGED <<readerVars, mixVars, waveVars, runVars>>

(***************************************************************************)
(* main: exception handlers and the finally block                          *)
(***************************************************************************)
\* except subprocess.CalledProcessError as e
HandleCalledProcessError ==
    /\ pc = "except_cpe"
    /\ report' = report \cup {Msg("processing-error"),
                              [kind |-> "failing-command", cmd |-> exc.cmd, rc |-> 0],
                              [kind |-> "exit-code", cmd |-> exc.cmd, rc |-> exc.rc],
                              [kind |-> "output", cmd |-> exc.cmd, rc |-> 0]}
    /\ pc' = "finally"
    /\ UNCHANGED <<i, log, inTry, exc, running, tempExists, written>>
    /\ UNCHANGED <<readerVars, mixVars, waveVars, runVars>>

\* except Exception as e
HandleException ==
    /\ pc = "except_other"
    /\ report' = report \cup {Msg("unexpected-error")}
    /\ pc' = "finally"
    /\ UNCHANGED <<i, log, inTry, exc, running, tempExists, written>>
    /\ UNCHANGED <<readerVars, mixVars, waveVars, runVars>>

TempKept(exists) == exists

\* os.remove("temp_audio.mp3"): whether the file exists afterwards
TempAfterRemove(exists) == FALSE

\* finally: if os.path.exists("temp_audio.mp3"): os.remove(...); print(...)
Finally ==
    /\ pc = "finally"
    /\ IF tempExists
       THEN /\ tempExists' = TempAfterRemove(tempExists)
            /\ report' = report \cup {Msg("temp-removed")}
       ELSE UNCHANGED <<tempExists, report>>
    /\ log' = Append(log, Event("cleanup", "temp", 0, 0))
    /\ pc' = "done"
    /\ UNCHANGED <<i, inTry, exc, running, written>>
    /\ UNCHANGED <<readerVars, mixVars, waveVars, runVars>>

(***************************************************************************)
(* Specifications                                                          *)
(***************************************************************************)
NoCommand == [inputs |-> <<>>, filter_complex |-> <<>>, map |-> <<>>]

\* values of the variables a part of the program has not touched yet
Fresh ==
    /\ pos = 0
    /\ i = 0
    /\ last_output = InLabel(0)
    /\ filter_complex_parts = <<>>
    /\ ffmpeg_command = NoCommand
    /\ total_duration = 0
    /\ durations = <<>>
    /\ text_filters = <<>>
    /\ waveform_command = NoCommand
    /\ running = {}
    /\ log = <<>>
    /\ report = {}
    /\ written = {}
    /\ exc = NoExc

\* line k of the playlists used for runs of main
SampleLine(k) == IF k % 2 = 1 THEN <<"a", ".", "mp3">>
                 ELSE <<"it", "'", "s", ".", "mp3">>

RECURSIVE MakePlaylist(_)
MakePlaylist(n) == IF n = 0 THEN <<"#", "EXTM3U", "\n">>
                   ELSE MakePlaylist(n - 1) \o SampleLine(n) \o <<"\n">>

\* a run of main of either script
Init ==
    /\ Fresh
    /\ pc = "main"
    /\ variant \in Variants
    /\ input_dir \in {"missing", "nom3u", "ok"}
    /\ playlist_path = <<"d", "/", "p", ".", "m3u">>
    /\ file \in {MakePlaylist(n) : n \in 0..MaxTracks}
    /\ tracks = <<>>
    /\ crossfade_duration \in {0, 5}
    /\ tempAtStart \in BOOLEAN
    /\ tempExists = tempAtStart
    /\ inTry = FALSE

Next ==
    \/ ListDir \/ ReadLine \/ ReadReturn \/ CheckTracks
    \/ MixEnter \/ MixLoop \/ MixReturn \/ MixStart \/ MixExit
    \/ WaveEnter \/ WaveLoopFixed \/ ProbeStart \/ ProbeSpawnError \/ ProbeExit
    \/ WaveBuild \/ RenderStart \/ RenderExit
    \/ HandleCalledProcessError \/ HandleException \/ Finally

Spec == Init /\ [][Next]_vars

\* read_m3u_playlist on every playlist file within the bound
FileAlphabet == {"a", ".", "/", " ", "#", "\n"}

PlaylistPaths == {<<"p">>, <<"d", "/", "p">>, <<"/", "p">>}

InitReader ==
    /\ Fresh
    /\ pc = "read_loop"
    /\ variant = "mix_mp3"
    /\ input_dir = "ok"
    /\ playlist_path \in PlaylistPaths
    /\ file \in SeqsUpTo(FileAlphabet, MaxFileLen)
    /\ tracks = <<>>
    /\ crossfade_duration = 5
    /\ tempAtStart = FALSE
    /\ tempExists = FALSE
    /\ inTry = FALSE

NextReader == ReadLine \/ ReadReturn

SpecReader == InitReader /\ [][NextReader]_vars

\* generate_ffmpeg_command on every track list within the bound
TrackPool == {Track(<<"d", "/", "a", ".", "mp3">>, <<"a">>),
              Track(<<"d", "/", "b", ".", "mp3">>, <<"b">>)}

InitMix ==
    /\ Fresh
    /\ pc = "mix_enter"
    /\ variant \in Variants
    /\ input_dir = "ok"
    /\ playlist_path = <<"d", "/", "p", ".", "m3u">>
    /\ file = <<>>
    /\ tracks \in SeqsUpTo(TrackPool, MaxMixTracks)
    /\ crossfade_duration \in 0..MaxCrossfade
    /\ tempAtStart = FALSE
    /\ tempExists = FALSE
    /\ inTry = TRUE

NextMix == MixEnter \/ MixLoop \/ MixReturn

SpecMix == InitMix /\ [][NextMix]_vars

\* generate_waveform_with_text on every track name within the bound
NameAlphabet == {"a", "'", "\\", ":", ","}

InitCaption ==
    /\ Fresh
    /\ pc = "wave_enter"
    /\ variant \in Variants
    /\ input_dir = "ok"
    /\ playlist_path = <<"d", "/", "p", ".", "m3u">>
    /\ file = <<>>
    /\ tracks \in {<<Track(<<"d", "/", "x">>, name)>> :
                       name \in SeqsUpTo(NameAlphabet, MaxNameLen)}
    /\ crossfade_duration = 5
    /\ tempAtStart = FALSE
    /\ tempExists = TRUE
    /\ inTry = TRUE

NextCaption ==
    \/ WaveEnter \/ WaveLoopFixed \/ ProbeStart \/ ProbeSpawnError \/ ProbeExit
    \/ WaveBuild

SpecCaption == InitCaption /\ [][NextCaption]_vars

(***************************************************************************)
(* Properties                                                              *)
(***************************************************************************)
StartEvents == {p \in 1..Len(log) : log[p].ev = "start"}

ParseDone == \E p \in 1..Len(log) : log[p].ev = "parse"

\* C1: for N >= 2 tracks generate_ffmpeg_command returns a left-folded chain
\* of exactly N-1 acrossfade stages; stage k takes the previous stage's label
\* ([0:a] for stage 1) and input [k:a] and emits [ak]; every input index
\* 0..N-1 is an operand exactly once; the mapped stream is [a(N-1)].
C1Theorem ==
    (pc = "mix_run" /\ Len(tracks) >= 2) =>
        LET N      == Len(tracks)
            stages == ffmpeg_command.filter_complex
            Uses(j) == Cardinality({k \in 1..Len(stages) : stages[k].first = InLabel(j)})
                       + Cardinality({k \in 1..Len(stages) : stages[k].second = InLabel(j)})
        IN  /\ Len(stages) = N - 1
            /\ Len(ffmpeg_command.inputs) = N
            /\ \A k \in 1..(N - 1) :
                  /\ stages[k].first = (IF k = 1 THEN InLabel(0) ELSE OutLabel(k - 1))
                  /\ stages[k].second = InLabel(k)
                  /\ stages[k].out = OutLabel(k)
                  /\ stages[k].d = crossfade_duration
            /\ \A j \in 0..(N - 1) : Uses(j) = 1
            /\ ffmpeg_command.map = OutLabel(N - 1)

C1Witness ==
    /\ pc = "mix_run"
    /\ Len(tracks) = 3
    /\ Len(ffmpeg_command.filter_complex) = 2
    /\ ffmpeg_command.map = OutLabel(2)

between(t, lo, hi) == lo <= t /\ t <= hi

Enabled(f, t) == f.enable # <<>> /\ between(t, f.enable[1], f.enable[2])

RECURSIVE SumTo(_, _)
SumTo(ds, k) == IF k = 0 THEN 0 ELSE SumTo(ds, k - 1) + ds[k]

TrackCaptions == {k \in 1..Len(text_filters) : text_filters[k].kind = "track"}

Times == 0..(MaxTracks * MaxDur + 1)

C3Windows ==
    /\ \A k \in TrackCaptions :
          /\ k <= Len(durations)
          /\ text_filters[k].enable[1] = SumTo(durations, k - 1)
          /\ text_filters[k].enable[2] = text_filters[k].enable[1] + durations[k]
    /\ \A k \in TrackCaptions : (k + 1) \in TrackCaptions =>
          text_filters[k].enable[2] = text_filters[k + 1].enable[1]

\* C3 as stated: the windows start at the prefix sums, are contiguous, and at
\* no time are the enable conditions of two different track captions both true.
C3Original ==
    variant = "mix_mp3a" =>
        /\ C3Windows
        /\ \A j \in TrackCaptions, k \in TrackCaptions, t \in Times :
              j # k => ~(Enabled(text_filters[j], t) /\ Enabled(text_filters[k], t))

\* C3 amended: the windows start at the prefix sums and are contiguous; two
\* different captions are both enabled only at an instant that is the end of
\* the earlier window and the start of the later one.
C3Theorem ==
    variant = "mix_mp3a" =>
        /\ C3Windows
        /\ \A j \in TrackCaptions, k \in TrackCaptions, t \in Times :
              (j < k /\ Enabled(text_filters[j], t) /\ Enabled(text_filters[k], t))
                  => (t = text_filters[j].enable[2] /\ t = text_filters[k].enable[1])

C3Witness ==
    /\ variant = "mix_mp3a"
    /\ pc = "render_run"
    /\ Len(tracks) = 3
    /\ \A k \in 1..3 : durations[k] > 0
    /\ \E t \in Times : Enabled(text_filters[1], t) /\ Enabled(text_filters[2], t)

\* the scanner of the filter syntax: a quote toggles quoted mode, a backslash
\* outside quotes escapes the next character
ScanStep(mode, c) ==
    IF mode = "esc" THEN "out"
    ELSE IF mode = "in" THEN (IF c = "'" THEN "out" ELSE "in")
    ELSE IF c = "'" THEN "in"
    ELSE IF c = "\\" THEN "esc"
    ELSE "out"

Modes == {"out", "in", "esc"}

\* the effect of scanning s[lo..hi] on the mode, composed from its two halves
RECURSIVE ScanRange(_, _, _)
ScanRange(s, lo, hi) ==
    IF lo > hi THEN [m \in Modes |-> m]
    ELSE IF lo = hi THEN [m \in Modes |-> ScanStep(m, s[lo])]
    ELSE LET mid   == (lo + hi) \div 2
             left  == ScanRange(s, lo, mid)
             right == ScanRange(s, mid + 1, hi)
         IN  [m \in Modes |-> right[left[m]]]

\* the mode after scanning the first n tokens of s
ModeAfter(s, n) == ScanRange(s, 1, n)["out"]

Separators == {":", ",", ";", "[", "]"}

RECURSIVE FiltersLen(_, _)
FiltersLen(fs, k) == IF k = 0 THEN 0
                     ELSE FiltersLen(fs, k - 1) + Len(FilterString(fs[k])) + 1

\* index in filter_complex of the quote that opens the text of caption k
TextOpen(k) == Len(FilterHead) + FiltersLen(text_filters, k - 1) + Len(CaptionPrefix)

Newlines(f) == {k \in 1..Len(f) : f[k] = "\n"}

NumLines(f) == Cardinality(Newlines(f))
               + (IF f # <<>> /\ f[Len(f)] # "\n" THEN 1 ELSE 0)

NthNewline(f, n) ==
    IF n = 0 THEN 0
    ELSE CHOOSE k \in Newlines(f) : Cardinality({m \in Newlines(f) : m <= k}) = n

LineText(f, j) ==
    SubSeq(f, NthNewline(f, j - 1) + 1,
           IF j <= Cardinality(Newlines(f)) THEN NthNewline(f, j) - 1 ELSE Len(f))

Trimmed(s) ==
    LET ink == {k \in 1..Len(s) : s[k] # " "}
    IN  IF ink = {} THEN <<>>
        ELSE SubSeq(s, CHOOSE k \in ink : \A m \in ink : k <= m,
                       CHOOSE k \in ink : \A m \in ink : m <= k)

TrackLines(f) == {j \in 1..NumLines(f) :
                     LET t == Trimmed(LineText(f, j)) IN t # <<>> /\ t[1] # "#"}

KthTrackLine(f, k) ==
    CHOOSE j \in TrackLines(f) : Cardinality({m \in TrackLines(f) : m <= j}) = k

\* base is what follows the last '/' of line
IsFilename(base, line) ==
    \E b \in 0..Len(line) :
        /\ b > 0 => line[b] = "/"
        /\ \A m \in (b + 1)..Len(line) : line[m] # "/"
        /\ base = SubSeq(line, b + 1, Len(line))

\* an extension starts at a '.' that has a character other than '.' before it
HasExtensionAt(base, q) ==
    /\ base[q] = "."
    /\ \E m \in 1..(q - 1) : base[m] # "."

\* name is base without its extension (the part from its last such '.')
IsStem(name, base) ==
    LET dots == {q \in 1..Len(base) : HasExtensionAt(base, q)}
    IN  IF dots = {} THEN name = base
        ELSE \E q \in dots : /\ \A m \in dots : m <= q
                             /\ name = SubSeq(base, 1, q - 1)

\* path is line placed in the directory that contains the playlist
IsInPlaylistDir(path, line, ppath) ==
    IF line[1] = "/" THEN path = line
    ELSE \E b \in 0..Len(ppath) :
            /\ b > 0 => ppath[b] = "/"
            /\ \A m \in (b + 1)..Len(ppath) : ppath[m] # "/"
            /\ path = SubSeq(ppath, 1, b) \o line

\* C5: read_m3u_playlist returns one Track per line that is non-empty after
\* trimming and does not start with '#', in file order; its name is the
\* line's filename without extension, its path the line joined to the
\* playlist's directory.
C5Theorem ==
    pc = "check_len" =>
        /\ Len(tracks) = Cardinality(TrackLines(file))
        /\ \A k \in 1..Len(tracks) :
              LET line == Trimmed(LineText(file, KthTrackLine(file, k)))
              IN  /\ \E base \in {SubSeq(line, b + 1, Len(line)) : b \in 0..Len(line)} :
                        IsFilename(base, line) /\ IsStem(tracks[k].name, base)
                  /\ IsInPlaylistDir(tracks[k].path, line, playlist_path)

C5Witness ==
    /\ pc = "check_len"
    /\ Len(tracks) = 2
    /\ NumLines(file) = 3
    /\ \E j \in 1..3 : LET t == Trimmed(LineText(file, j)) IN t # <<>> /\ t[1] = "#"

\* C6: when the input directory is missing or holds no playlist, the run
\* prints the missing-playlist diagnostic, writes no file and starts no
\* external tool.
C6Claim ==
    (pc = "done" /\ input_dir \in {"missing", "nom3u"}) =>
        /\ Msg("missing-playlist") \in report
        /\ written = {}
        /\ StartEvents = {}

\* C7: when the playlist yields fewer than two tracks the run prints the
\* insufficient-tracks diagnostic and ends; no audio mix, probe or render is
\* ever started and neither the intermediate nor the output file is written.
C7Theorem ==
    (ParseDone /\ Len(tracks) < 2) =>
        /\ pc \in {"check_len", "done"}
        /\ StartEvents = {}
        /\ running = {}
        /\ written = {}
        /\ ~inTry
        /\ pc = "done" => Msg("insufficient-tracks") \in report

C7Witness ==
    /\ pc = "done"
    /\ input_dir = "ok"
    /\ Len(tracks) = 1
    /\ Msg("insufficient-tracks") \in report

\* C8: after a non-zero exit of the audio mix, the video render or a duration
\* probe, the run prints the failing command, its exit code and its output,
\* starts nothing further and performs cleanup.
C8Claim ==
    pc = "done" =>
        \A p \in 1..Len(log) :
            (log[p].ev = "exit" /\ log[p].rc # 0) =>
                /\ [kind |-> "failing-command", cmd |-> log[p].cmd, rc |-> 0] \in report
                /\ [kind |-> "exit-code", cmd |-> log[p].cmd, rc |-> log[p].rc] \in report
                /\ [kind |-> "output", cmd |-> log[p].cmd, rc |-> 0] \in report
                /\ \A q \in StartEvents : q < p
                /\ \E q \in (p + 1)..Len(log) : log[q].ev = "cleanup"

\* C9: mix_mp3 builds, for M tracks, exactly M captions with an enable
\* condition, the k-th (0-based) true exactly for 60k <= t <= 60(k+1), and one
\* timestamp caption without enable condition.
C9Theorem ==
    (variant = "mix_mp3" /\ pc = "render_run") =>
        LET M  == Len(tracks)
            fc == waveform_command.filter_complex
        IN  /\ Len(text_filters) = M + 1
            /\ TrackCaptions = 1..M
            /\ \A k \in 1..M, t \in 0..(60 * M + 1) :
                  Enabled(text_filters[k], t) <=> (60 * (k - 1) <= t /\ t <= 60 * k)
            /\ text_filters[M + 1].kind = "timestamp"
            /\ text_filters[M + 1].enable = <<>>
            /\ \A p \in 1..Len(FilterString(text_filters[M + 1])) :
                  FilterString(text_filters[M + 1])[p] # "enable="
            /\ Cardinality({p \in 1..Len(fc) : fc[p] = "enable="}) = M

C9Witness ==
    /\ variant = "mix_mp3"
    /\ pc = "render_run"
    /\ Len(tracks) = 3
    /\ text_filters[3].enable = <<120, 180>>

\* the order of steps C10 states, and the order the script follows
ClaimedRank(e) == CASE e.ev = "parse" -> 0
                    [] e.cmd = "probe" -> 1
                    [] e.cmd = "mix" -> 2
                    [] e.cmd = "render" -> 3
                    [] OTHER -> 4

ActualRank(e) == CASE e.ev = "parse" -> 0
                   [] e.cmd = "mix" -> 1
                   [] e.cmd = "probe" -> 2
                   [] e.cmd = "render" -> 3
                   [] OTHER -> 4

\* one process at a time: a start is followed at once by the exit of the same
\* process, and only the process of the last start can be running
Sequential ==
    /\ Cardinality(running) <= 1
    /\ \A p \in 1..Len(log) : log[p].ev = "start" =>
          IF p < Len(log)
          THEN /\ log[p + 1].ev = "exit"
               /\ log[p + 1].cmd = log[p].cmd
               /\ log[p + 1].idx = log[p].idx
          ELSE running = {log[p].cmd}
    /\ (log = <<>> \/ log[Len(log)].ev # "start") => running = {}

\* C10 as stated: parsing, then the probes, then the audio mix, then the
\* render, then cleanup, one process at a time.
C10Original ==
    variant = "mix_mp3a" =>
        /\ Sequential
        /\ \A p \in 1..Len(log), q \in 1..Len(log) :
              p < q => ClaimedRank(log[p]) <= ClaimedRank(log[q])

\* C10 amended: parsing, then the audio mix, then the probes (one process per
\* track, in playlist order), then the render, then cleanup, one process at a
\* time; the render starts only after the audio mix exited with code 0 and
\* every track's probe returned a duration.
C10Theorem ==
    variant = "mix_mp3a" =>
        /\ Sequential
        /\ \A p \in 1..Len(log), q \in 1..Len(log) :
              p < q => ActualRank(log[p]) <= ActualRank(log[q])
        /\ \A p \in StartEvents : log[p].cmd = "probe" =>
              log[p].idx = Cardinality({q \in StartEvents : q < p /\ log[q].cmd = "probe"})
        /\ \A p \in StartEvents : log[p].cmd = "probe" =>
              \E q \in 1..(p - 1) : log[q] = Event("exit", "mix", 0, 0)
        /\ \A p \in StartEvents : log[p].cmd = "render" =>
              /\ \E q \in 1..(p - 1) : log[q] = Event("exit", "mix", 0, 0)
              /\ Len(durations) = Len(tracks)
              /\ \A k \in 0..(Len(tracks) - 1) :
                    \E q \in 1..(p - 1) :
                        log[q].ev = "exit" /\ log[q].cmd = "probe" /\ log[q].idx = k
        /\ \A p \in 1..Len(log) : log[p].ev = "cleanup" => p = Len(log)

C10Witness ==
    /\ variant = "mix_mp3a"
    /\ pc = "done"
    /\ Len(tracks) = 3
    /\ Msg("render-ok") \in report
    /\ log[Len(log)].ev = "cleanup"

====
